---- MODULE Spec2Model ----
(***************************************************************************)
(* Model B-with-theta (pyanno/modelBt.py): the triplet-combination cache,  *)
(* the parameter vector conversions, the pattern frequencies and the       *)
(* log likelihood over the 8 lineups of the loop design, the generation of *)
(* annotations with the loop-design mask, and the fit (mle).               *)
(*                                                                         *)
(* Reals are modelled exactly, as rationals <<num, den>> in lowest terms.  *)
(* A denominator of 0 stands for the IEEE values a numpy division by zero  *)
(* yields: <<1,0>> is +inf, <<-1,0>> is -inf and <<0,0>> is nan.           *)
(* Class labels and annotator indices are 0-based as in the source; TLA+   *)
(* sequences are 1-based, so x[k] of the source is x[k+1] here.            *)
(***************************************************************************)
EXTENDS Integers, Sequences, FiniteSets, TLC

VARIABLES
    nclasses,             \* self.nclasses
    nitems,               \* self.nitems
    gamma,                \* self.gamma
    theta,                \* self.theta
    use_priors,           \* self.use_priors
    use_omegas,           \* self.use_omegas
    triplet_combinations, \* the module-level dict _triplet_combinations
    computed,             \* history: how many times each n was enumerated
    nextId,               \* history: identity of the next array object created
    labels,               \* the labels last generated
    annotations,          \* the annotation matrix last generated or fitted
    op,                   \* the operation that ran last
    arg,                  \* the arguments of that operation
    ret,                  \* what it returned
    raised,               \* the exception it ended with, "none" when it returned
    evaluated,            \* history: the terms that operation evaluated
    prev,                 \* history: the call before it, as [op, arg, ret]
    mle_pc,               \* where a call of mle stands
    counts,               \* mle's local counts
    params0,              \* mle's local params0
    nevals,               \* history: the objective evaluations of this fit
    visited,              \* history: the vectors the optimizer evaluated
    saved,                \* history: <<gamma, theta>> when mle was called
    threads               \* the concurrent callers of _get_triplet_combinations

vars == <<nclasses, nitems, gamma, theta, use_priors, use_omegas,
          triplet_combinations, computed, nextId, labels, annotations,
          op, arg, ret, raised, evaluated, prev,
          mle_pc, counts, params0, nevals, visited, saved, threads>>

\* the variables of a fit
fitVars == <<mle_pc, counts, params0, nevals, visited, saved>>

----------------------------------------------------------------------------
(* Bounds of the model. *)

\* the largest number of classes a model is built with
MaxClasses == 3
\* reals are drawn from the grid k/Den
Den == 2
\* the largest number of items a model is built with
MaxItems == 16
\* the random source is one of the seeds 0..MaxSeed
MaxSeed == 2
\* the largest number of classes a fitted model is built with
MaxFitClasses == 2
\* the objective evaluations the optimizer makes in one fit
MaxEvals == 2
\* the threads that call _get_triplet_combinations concurrently
NThreads == 2
\* the largest n _get_triplet_combinations is called with directly
MaxKey == 4

----------------------------------------------------------------------------
(* Program constants. *)

\* self.nannotators
nannotators == 8
\* self.annotators_per_item
annotators_per_item == 3
\* MISSING_VALUE, the sentinel of a masked annotation
MissingValue == -1

----------------------------------------------------------------------------
(* Exact arithmetic. *)

Abs(x) == IF x < 0 THEN -x ELSE x

Sign(x) == IF x < 0 THEN -1 ELSE IF x > 0 THEN 1 ELSE 0

RECURSIVE Gcd(_, _)
Gcd(a, b) == IF b = 0 THEN a ELSE Gcd(b, a % b)

\* the rational n/d in lowest terms with a non-negative denominator
Rat(n, d) ==
    IF d = 0 THEN <<Sign(n), 0>>
    ELSE LET g == Gcd(Abs(n), Abs(d))
             s == IF d < 0 THEN -1 ELSE 1
         IN  <<(s * n) \div g, (s * d) \div g>>

Zero == Rat(0, 1)
One == Rat(1, 1)
NaN == <<0, 0>>

IsFinite(x) == x[2] # 0

\* sums and products reduce before they multiply, to keep the integers small
RAdd(x, y) ==
    IF IsFinite(x) /\ IsFinite(y)
    THEN LET g == Gcd(x[2], y[2])
         IN  Rat(x[1] * (y[2] \div g) + y[1] * (x[2] \div g), (x[2] \div g) * y[2])
    ELSE IF x = NaN \/ y = NaN THEN NaN
    ELSE IF IsFinite(x) THEN y
    ELSE IF IsFinite(y) THEN x
    ELSE IF x = y THEN x ELSE NaN

RNeg(x) == <<-x[1], x[2]>>

RSub(x, y) == RAdd(x, RNeg(y))

RMul(x, y) ==
    IF IsFinite(x) /\ IsFinite(y) /\ x[1] # 0 /\ y[1] # 0
    THEN LET g == Gcd(Abs(x[1]), y[2])
             h == Gcd(Abs(y[1]), x[2])
         IN  Rat((x[1] \div g) * (y[1] \div h), (x[2] \div h) * (y[2] \div g))
    ELSE Rat(x[1] * y[1], x[2] * y[2])

RDiv(x, y) ==
    IF IsFinite(y) THEN Rat(x[1] * y[2], x[2] * y[1])
    ELSE IF IsFinite(x) /\ y # NaN THEN Zero ELSE NaN

\* x < y; every comparison with nan is false
RLt(x, y) ==
    IF x = NaN \/ y = NaN THEN FALSE
    ELSE IF IsFinite(x) /\ IsFinite(y) THEN x[1] * y[2] < y[1] * x[2]
    ELSE IF ~IsFinite(x) /\ ~IsFinite(y) THEN x[1] < y[1]
    ELSE IF IsFinite(x) THEN y[1] > 0
    ELSE x[1] < 0

RECURSIVE RSum(_)
RSum(s) == IF s = <<>> THEN Zero ELSE RAdd(s[1], RSum(Tail(s)))

RECURSIVE RProd(_)
RProd(s) == IF s = <<>> THEN One ELSE RMul(s[1], RProd(Tail(s)))

\* Python's min and max of a non-empty sequence, scanning left to right
RECURSIVE PyMin(_)
PyMin(s) ==
    IF Len(s) = 1 THEN s[1]
    ELSE LET m == PyMin(SubSeq(s, 1, Len(s) - 1))
         IN  IF RLt(s[Len(s)], m) THEN s[Len(s)] ELSE m

RECURSIVE PyMax(_)
PyMax(s) ==
    IF Len(s) = 1 THEN s[1]
    ELSE LET m == PyMax(SubSeq(s, 1, Len(s) - 1))
         IN  IF RLt(m, s[Len(s)]) THEN s[Len(s)] ELSE m

----------------------------------------------------------------------------
(* Input sets. *)

\* the grid points of [0,1]
UnitGrid == {Rat(k, Den) : k \in 0..Den}

\* the grid points of [-1/Den, 1 + 1/Den]: the unit interval and one point
\* beyond each end
WideGrid == {Rat(k, Den) : k \in -1..(Den + 1)}

\* the probability vectors of length n on the grid
Simplex(n) == {g \in [1..n -> UnitGrid] : RSum(g) = One}

----------------------------------------------------------------------------
(* The triplet-combination cache. *)

\* np.array([i for i in np.ndindex(n,n,n)]): the n^3 triples in row-major order
NdIndex3(n) ==
    [k \in 1..(n * n * n) |->
        <<(k - 1) \div (n * n), ((k - 1) \div n) % n, (k - 1) % n>>]

\* _triplet_combinations[n] = the array with identity id
StoreEntry(cache, n, id) ==
    [m \in DOMAIN cache \cup {n} |->
        IF m = n THEN [id |-> id, value |-> NdIndex3(n)] ELSE cache[m]]

\* the dict after a _get_triplet_combinations(n) that stores without testing
\* for the key
CacheAfterGetUntested(cache, n, id) == StoreEntry(cache, n, id)

\* the dict after _get_triplet_combinations(n): stored only when n is no key
CacheAfterGet(cache, n, id) ==
    IF n \in DOMAIN cache THEN cache ELSE StoreEntry(cache, n, id)

\* _get_triplet_combinations(n) run to completion by one caller: the effect on
\* the dict and on the history, and the entry returned
GetTripletCombinations(n) ==
    /\ triplet_combinations' = CacheAfterGet(triplet_combinations, n, nextId)
    /\ computed' = IF n \in DOMAIN triplet_combinations THEN computed
                   ELSE [computed EXCEPT ![n] = @ + 1]
    /\ nextId' = IF n \in DOMAIN triplet_combinations THEN nextId ELSE nextId + 1

----------------------------------------------------------------------------
(* Pattern frequencies. *)

\* the complement of theta not shared among the nclasses-1 other classes
NotThetaUnshared(n, theta_triplet) ==
    [j \in 1..3 |-> RSub(One, theta_triplet[j])]

\* (1.-theta_triplet) / (nclasses-1.)
NotTheta(n, theta_triplet) ==
    [j \in 1..3 |-> RDiv(RSub(One, theta_triplet[j]), Rat(n - 1, 1))]

\* np.where(v_ijk_combinations[:,j]==psi, theta_triplet[j], not_theta[j]) for
\* the row v, and the product of the three columns
PVGivenPsi(n, theta_triplet, v, psi) ==
    RProd([j \in 1..3 |->
        IF v[j] = psi THEN theta_triplet[j] ELSE NotTheta(n, theta_triplet)[j]])

\* _pattern_frequencies: pf[v] = sum over psi of P(v | psi) * gamma[psi]
PatternFrequenciesOf(n, g, theta_triplet, combos) ==
    [k \in 1..Len(combos) |->
        RSum([p \in 1..n |->
            RMul(PVGivenPsi(n, theta_triplet, combos[k], p - 1), g[p])])]

----------------------------------------------------------------------------
(* The state before any call. *)

\* a theta of 8 in-range accuracies, for the states whose theta plays no part
DefaultTheta == [j \in 1..nannotators |-> One]

\* draws of _random_gamma: points inside the simplex
RandomGamma(n) ==
    {[k \in 1..n |-> Rat(1, n)]}
        \cup {[k \in 1..n |-> IF k = 1 THEN Rat(n + 1, 2 * n) ELSE Rat(1, 2 * n)]}

\* a class prior of length n, for the states whose gamma plays no part
DefaultGamma(n) == [k \in 1..n |-> IF k = 1 THEN One ELSE Zero]

NoCall ==
    /\ op = "none"
    /\ arg = <<>>
    /\ ret = <<>>
    /\ raised = "none"
    /\ evaluated = {}
    /\ prev = [op |-> "none", arg |-> <<>>, ret |-> <<>>]

EmptyCache ==
    /\ triplet_combinations = <<>>
    /\ computed = [n \in 1..MaxKey |-> 0]
    /\ nextId = 1

NoData ==
    /\ labels = <<>>
    /\ annotations = <<>>

\* no thread has called yet
NoThreads ==
    threads = [t \in 1..NThreads |-> [pc |-> "idle", n |-> 0, array |-> 0, ret |-> 0]]

NoFit ==
    /\ mle_pc = "idle"
    /\ counts = <<>>
    /\ params0 = <<>>
    /\ nevals = 0
    /\ visited = {}
    /\ saved = <<>>

----------------------------------------------------------------------------
(* _pattern_frequencies on a model with a valid class prior. *)

InitPF ==
    /\ nclasses \in 1..MaxClasses
    /\ nitems = nannotators
    /\ gamma \in Simplex(nclasses)
    /\ theta = DefaultTheta
    /\ use_priors = TRUE
    /\ use_omegas = TRUE
    /\ EmptyCache
    /\ NoData
    /\ NoFit
    /\ NoThreads
    /\ NoCall

\* self._pattern_frequencies(theta_triplet), called once on the model built
PatternFrequencies ==
    /\ op = "none"
    /\ GetTripletCombinations(nclasses)
    /\ op' = "_pattern_frequencies"
    /\ \E theta_triplet \in [1..3 -> WideGrid] :
        /\ arg' = theta_triplet
        /\ ret' = PatternFrequenciesOf(nclasses, gamma, theta_triplet,
                                       triplet_combinations'[nclasses].value)
    /\ raised' = "none"
    /\ evaluated' = {}
    /\ prev' = [op |-> op, arg |-> arg, ret |-> ret]
    /\ UNCHANGED <<nclasses, nitems, gamma, theta, use_priors, use_omegas,
                   labels, annotations, fitVars, threads>>

NextPF == PatternFrequencies

SpecPF == InitPF /\ [][NextPF]_vars

\* every component of the sequence lies in [0,1]
InUnit(s) == \A k \in 1..Len(s) : ~RLt(s[k], Zero) /\ ~RLt(One, s[k])

\* the emission probability P(v | psi, th) of the noisy-annotator model
Emission(n, v, psi, th) == IF v = psi THEN th ELSE RDiv(RSub(One, th), Rat(n - 1, 1))

\* the label the j-th annotator (j in 1..3) reports in pattern number k (from 1)
LabelOf(n, k, j) ==
    IF j = 1 THEN (k - 1) \div (n * n)
    ELSE IF j = 2 THEN ((k - 1) \div n) % n
    ELSE (k - 1) % n

\* C3: for nclasses >= 2, gamma on the simplex and a theta triplet in [0,1],
\* _pattern_frequencies returns nclasses^3 entries that sum to exactly 1, the
\* entry of pattern (v1,v2,v3) being the sum over psi of gamma[psi] times the
\* product of the three emission probabilities.
C3_PatternFrequenciesSumToOne ==
    (op = "_pattern_frequencies" /\ nclasses >= 2 /\ InUnit(arg)
        /\ InUnit(gamma) /\ RSum(gamma) = One)
    => /\ Len(ret) = nclasses * nclasses * nclasses
       /\ RSum(ret) = One
       /\ \A k \in 1..Len(ret) :
            ret[k] = RSum([p \in 1..nclasses |->
                RMul(gamma[p],
                     RMul(Emission(nclasses, LabelOf(nclasses, k, 1), p - 1, arg[1]),
                          RMul(Emission(nclasses, LabelOf(nclasses, k, 2), p - 1, arg[2]),
                               Emission(nclasses, LabelOf(nclasses, k, 3), p - 1, arg[3]))))])

\* three classes, a prior with two classes of positive mass and a triplet with
\* an imperfect annotator have been evaluated
C3_Witness ==
    /\ op = "_pattern_frequencies"
    /\ nclasses = 3
    /\ InUnit(arg)
    /\ arg[1] = Rat(1, 2)
    /\ gamma[1] = Rat(1, 2)
    /\ Len(ret) = 27

\* C7: with a single class, _pattern_frequencies returns the one-element
\* vector <<1>>: all mass on the pattern (0,0,0).
C7_SingleClassAllMass ==
    (op = "_pattern_frequencies" /\ nclasses = 1 /\ InUnit(arg))
    => ret = <<One>>

----------------------------------------------------------------------------
(* The conversions between (gamma, theta) and the optimizer's vector. *)

\* s[a:b] of a sequence, 0-based and half-open, clipped as Python clips it
Slice(s, a, b) ==
    LET hi == IF b > Len(s) THEN Len(s) ELSE b
    IN  IF a >= hi THEN <<>> ELSE SubSeq(s, a + 1, hi)

\* theta = params[nclasses:], dropping the first accuracy
VectorToParamsShifted(n, params) ==
    LET head == Slice(params, 0, n - 1)
    IN  <<head \o <<RSub(One, RSum(head))>>, Slice(params, n, Len(params))>>

\* _params_to_vector: np.r_[gamma[:-1], theta]
ParamsToVectorOf(g, th) == Slice(g, 0, Len(g) - 1) \o th

\* _vector_to_params: gamma[:nclasses-1] = params[:nclasses-1],
\* gamma[-1] = 1. - gamma[:nclasses-1].sum(), theta = params[nclasses-1:]
VectorToParamsOf(n, params) ==
    LET head == Slice(params, 0, n - 1)
    IN  <<head \o <<RSub(One, RSum(head))>>, Slice(params, n - 1, Len(params))>>

\* the vectors of length n on the wide grid that sum to 1
SumOne(n) == {g \in [1..n -> WideGrid] : RSum(g) = One}

\* the vectors of 8 accuracies equal to b but for one annotator's, which is x
ThetaVectors ==
    {[j \in 1..nannotators |-> IF j = k THEN x ELSE b] :
        k \in 1..nannotators, x \in WideGrid, b \in WideGrid}

InitVec ==
    /\ nclasses \in 1..MaxClasses
    /\ nitems = nannotators
    /\ gamma = DefaultGamma(nclasses)
    /\ theta = DefaultTheta
    /\ use_priors = TRUE
    /\ use_omegas = TRUE
    /\ EmptyCache
    /\ NoData
    /\ NoFit
    /\ NoThreads
    /\ NoCall

\* self._params_to_vector(g, th), called once on the model built
ParamsToVector ==
    /\ op = "none"
    /\ op' = "_params_to_vector"
    /\ \E g \in SumOne(nclasses), th \in ThetaVectors :
        /\ arg' = <<g, th>>
        /\ ret' = ParamsToVectorOf(g, th)
    /\ raised' = "none"
    /\ evaluated' = {}
    /\ prev' = [op |-> op, arg |-> arg, ret |-> ret]
    /\ UNCHANGED <<nclasses, nitems, gamma, theta, use_priors, use_omegas,
                   triplet_combinations, computed, nextId, labels, annotations,
                   fitVars, threads>>

\* self._vector_to_params(params) on the vector _params_to_vector returned
VectorToParams ==
    /\ op = "_params_to_vector"
    /\ op' = "_vector_to_params"
    /\ arg' = ret
    /\ ret' = VectorToParamsOf(nclasses, ret)
    /\ raised' = "none"
    /\ evaluated' = {}
    /\ prev' = [op |-> op, arg |-> arg, ret |-> ret]
    /\ UNCHANGED <<nclasses, nitems, gamma, theta, use_priors, use_omegas,
                   triplet_combinations, computed, nextId, labels, annotations,
                   fitVars, threads>>

NextVec ==
    \/ ParamsToVector
    \/ VectorToParams

SpecVec == InitVec /\ [][NextVec]_vars

\* C4: _vector_to_params(_params_to_vector(gamma, theta)) gives back gamma and
\* theta, for a gamma of length nclasses summing to 1 and a theta of length 8;
\* the vector in between has nclasses-1+8 entries.
C4_RoundTrip ==
    (op = "_vector_to_params" /\ prev.op = "_params_to_vector"
        /\ Len(prev.arg[1]) = nclasses /\ RSum(prev.arg[1]) = One
        /\ Len(prev.arg[2]) = nannotators)
    => /\ arg = prev.ret
       /\ Len(arg) = nclasses - 1 + nannotators
       /\ ret[1] = prev.arg[1]
       /\ ret[2] = prev.arg[2]

\* a three-class gamma and a theta whose first accuracy differs from the others
\* have gone through both conversions
C4_Witness ==
    /\ op = "_vector_to_params"
    /\ prev.op = "_params_to_vector"
    /\ nclasses = 3
    /\ prev.arg[1] = <<Rat(1, 2), Zero, Rat(1, 2)>>
    /\ prev.arg[2][1] # prev.arg[2][2]
    /\ Len(ret[2]) = nannotators

----------------------------------------------------------------------------
(* The generation of labels and annotations. *)

\* the classes a distribution gives positive probability
Support(distr) == {k - 1 : k \in {m \in 1..Len(distr) : RLt(Zero, distr[m])}}

\* one draw of random_categorical(distr, 1): the class of the support that the
\* random number r selects
RandomCategorical(distr, r) ==
    LET S == Support(distr)
    IN  CHOOSE x \in S : Cardinality({y \in S : y < x}) = r % Cardinality(S)

\* the distribution _theta_to_categorical fills: (1.-theta)/(nclasses-1.)
\* everywhere, theta at psi
ThetaToCategorical(n, th, psi) ==
    [k \in 1..n |-> IF k - 1 = psi THEN th ELSE RDiv(RSub(One, th), Rat(n - 1, 1))]

\* assert np.allclose(distr.sum(), 1.), on exact values
DistrAssertion(distr) == RSum(distr) = One

\* the loop-design mask that leaves four annotators per item
LabelIdxFromFour(l) ==
    {k % 8 : k \in (l + annotators_per_item + 1)..(l + nannotators - 1)}

\* label_idx = np.arange(l+self.annotators_per_item, l+nannotators) % 8
LabelIdx(l) ==
    {k % 8 : k \in (l + annotators_per_item)..(l + nannotators - 1)}

\* annotations[l*nitems_per_loop:(l+1)*nitems_per_loop, label_idx] = -1
MaskBlock(ann, l, nitems_per_loop) ==
    [i \in 1..Len(ann) |-> [j \in 1..nannotators |->
        IF /\ l * nitems_per_loop <= i - 1
           /\ i - 1 < (l + 1) * nitems_per_loop
           /\ (j - 1) \in LabelIdx(l)
        THEN MissingValue ELSE ann[i][j]]]

\* for l in xrange(nannotators), from lineup l on
RECURSIVE MaskFrom(_, _, _)
MaskFrom(ann, l, nitems_per_loop) ==
    IF l >= nannotators THEN ann
    ELSE MaskFrom(MaskBlock(ann, l, nitems_per_loop), l + 1, nitems_per_loop)

\* the matrix generate_annotations returns for these labels under seed
GenerateAnnotationsOf(n, m, th, lab, seed) ==
    LET drawn == [i \in 1..m |-> [j \in 1..nannotators |->
                    RandomCategorical(ThetaToCategorical(n, th[j], lab[i]),
                                      seed + i + j)]]
    IN  MaskFrom(drawn, 0, m \div nannotators)

\* the vectors of 8 accuracies in [0,1], all equal but for the first annotator's
UnitThetaVectors ==
    {[j \in 1..nannotators |-> IF j = 1 THEN x ELSE b] : x \in UnitGrid, b \in UnitGrid}

InitGen ==
    /\ nclasses \in 1..MaxClasses
    /\ nitems \in 1..MaxItems
    /\ gamma \in {DefaultGamma(nclasses)} \cup RandomGamma(nclasses)
    /\ theta \in UnitThetaVectors
    /\ use_priors = TRUE
    /\ use_omegas = TRUE
    /\ EmptyCache
    /\ NoData
    /\ NoFit
    /\ NoThreads
    /\ NoCall

\* self.generate_labels(): random_categorical(self.gamma, self.nitems)
GenerateLabels ==
    /\ op = "none"
    /\ op' = "generate_labels"
    /\ arg' = <<>>
    /\ \E seed \in 0..MaxSeed :
        labels' = [i \in 1..nitems |-> RandomCategorical(gamma, seed + i)]
    /\ ret' = labels'
    /\ raised' = "none"
    /\ evaluated' = {}
    /\ prev' = [op |-> op, arg |-> arg, ret |-> ret]
    /\ UNCHANGED <<nclasses, nitems, gamma, theta, use_priors, use_omegas,
                   triplet_combinations, computed, nextId, annotations, fitVars, threads>>

\* self.generate_annotations(labels) on the labels generated; the assertion of
\* _theta_to_categorical ends the call when a distribution does not sum to 1
GenerateAnnotations ==
    /\ op = "generate_labels"
    /\ op' = "generate_annotations"
    /\ arg' = labels
    /\ IF \A i \in 1..nitems, j \in 1..nannotators :
            DistrAssertion(ThetaToCategorical(nclasses, theta[j], labels[i]))
       THEN /\ \E seed \in 0..MaxSeed :
                annotations' = GenerateAnnotationsOf(nclasses, nitems, theta,
                                                     labels, seed)
            /\ ret' = annotations'
            /\ raised' = "none"
       ELSE /\ annotations' = annotations
            /\ ret' = <<>>
            /\ raised' = "AssertionError"
    /\ evaluated' = {}
    /\ prev' = [op |-> op, arg |-> arg, ret |-> ret]
    /\ UNCHANGED <<nclasses, nitems, gamma, theta, use_priors, use_omegas,
                   triplet_combinations, computed, nextId, labels, fitVars, threads>>

NextGen ==
    \/ GenerateLabels
    \/ GenerateAnnotations

SpecGen == InitGen /\ [][NextGen]_vars

\* triplet_indices of _log_likelihood_counts without the wrap-around
TripletIndicesNoWrap(i) == SortSeq([k \in 1..3 |-> i + k - 1], <)

\* triplet_indices = np.arange(i, i+3) % self.nannotators, then sorted
TripletIndices(i) == SortSeq([k \in 1..3 |-> (i + k - 1) % nannotators], <)

\* the annotator columns of a row that are not missing (0-based)
NonMissing(row) == {j - 1 : j \in {m \in 1..Len(row) : row[m] # MissingValue}}

Returned(name) == op = name /\ raised = "none"

\* C1: when nitems is a positive multiple of 8, every row of the matrix
\* generate_annotations returns has exactly 3 entries that are class indices
\* and exactly 5 entries equal to -1.
C1_ThreeAnnotationsPerRow ==
    (Returned("generate_annotations") /\ nitems % nannotators = 0)
    => /\ Len(ret) = nitems
       /\ \A i \in 1..nitems :
            /\ Len(ret[i]) = nannotators
            /\ Cardinality({j \in 1..nannotators : ret[i][j] \in 0..(nclasses - 1)}) = 3
            /\ Cardinality({j \in 1..nannotators : ret[i][j] = -1}) = 5

\* sixteen items of three classes have been annotated by imperfect annotators
C1_Witness ==
    /\ Returned("generate_annotations")
    /\ nitems = 16
    /\ nclasses = 3
    /\ theta[2] = Rat(1, 2)
    /\ \E i \in 1..nitems : \E j \in NonMissing(ret[i]) : ret[i][j + 1] # labels[i]

\* C2: in item block l the columns generate_annotations leaves non-missing are
\* exactly {l, l+1, l+2} mod 8, the annotators whose theta
\* _log_likelihood_counts pairs with counts column l, in sorted order.
C2_MaskMatchesLineups ==
    Returned("generate_annotations")
    => \A l \in 0..(nannotators - 1) :
        /\ \A i \in 1..nitems :
            (l * (nitems \div nannotators) <= i - 1
                /\ i - 1 < (l + 1) * (nitems \div nannotators))
            => /\ NonMissing(ret[i]) = {l, (l + 1) % 8, (l + 2) % 8}
               /\ NonMissing(ret[i]) = {TripletIndices(l)[k] : k \in 1..3}
        /\ TripletIndices(l)[1] < TripletIndices(l)[2]
        /\ TripletIndices(l)[2] < TripletIndices(l)[3]

\* the blocks of the wrap-around lineups 6 and 7 hold items
C2_Witness ==
    /\ Returned("generate_annotations")
    /\ nitems = 16
    /\ NonMissing(ret[13]) = {0, 6, 7}
    /\ NonMissing(ret[16]) = {0, 1, 7}
    /\ TripletIndices(6) = <<0, 6, 7>>

\* the lineup blocks whose slice l*nitems_per_loop:(l+1)*nitems_per_loop
\* holds row i (from 1) of a matrix of m rows
BlocksOf(i, m) ==
    {l \in 0..(nannotators - 1) :
        /\ l * (m \div nannotators) <= i - 1
        /\ i - 1 < (l + 1) * (m \div nannotators)}

\* C12: for every nitems >= 1, a multiple of 8 or not, the mask of
\* generate_annotations puts every row in exactly one of the 8 lineup blocks,
\* and every row of the result has exactly 3 non-missing entries.
C12_EveryRowMasked ==
    Returned("generate_annotations")
    => \A i \in 1..nitems :
        /\ Cardinality(BlocksOf(i, nitems)) = 1
        /\ Cardinality(NonMissing(ret[i])) = annotators_per_item

----------------------------------------------------------------------------
(* The log likelihood.  A log likelihood is kept as the terms it is the sum *)
(* of: a lineup's term is either the sentinel -1e20 or a value, the sum of  *)
(* a log_beta_pdf over `prior` and of counts * log(pf).                     *)

\* return -1e20
Sentinel == [kind |-> "sentinel", prior |-> <<>>, counts |-> <<>>, pf |-> <<>>]

\* a guard that tests theta_triplet and forgets gamma
OutOfDomainThetaOnly(g, theta_triplet) ==
    \/ RLt(PyMin(theta_triplet), Zero)
    \/ RLt(One, PyMax(theta_triplet))

\* a guard that tests the lower end of the domain and forgets the upper
OutOfDomainBelowOnly(g, theta_triplet) ==
    RLt(PyMin(<<PyMin(g), PyMin(theta_triplet)>>), Zero)

\* min(min(gamma), min(theta_triplet)) < 0. or
\* max(max(gamma), max(theta_triplet)) > 1.
OutOfDomain(g, theta_triplet) ==
    \/ RLt(PyMin(<<PyMin(g), PyMin(theta_triplet)>>), Zero)
    \/ RLt(One, PyMax(<<PyMax(g), PyMax(theta_triplet)>>))

\* whether numpy multiplies two vectors of these lengths element by element
Broadcastable(a, b) == a = b \/ a = 1 \/ b = 1

\* the exception _log_likelihood_triplet ends with, "none" when it returns
TripletRaises(n, g, counts_triplet, theta_triplet) ==
    IF OutOfDomain(g, theta_triplet) THEN "none"
    ELSE IF Broadcastable(Len(counts_triplet), n * n * n) THEN "none"
    ELSE "ValueError"

\* the terms _log_likelihood_triplet evaluates before it returns or raises
TripletEvaluates(g, up, theta_triplet) ==
    IF OutOfDomain(g, theta_triplet) THEN {}
    ELSE (IF up THEN {"prior"} ELSE {}) \cup {"pattern_frequencies", "log"}

\* a triplet value whose prior is left out although use_priors is set
TripletValueWithoutPrior(n, g, up, counts_triplet, theta_triplet, combos) ==
    IF OutOfDomain(g, theta_triplet) THEN Sentinel
    ELSE [kind |-> "value",
          prior |-> <<>>,
          counts |-> counts_triplet,
          pf |-> PatternFrequenciesOf(n, g, theta_triplet, combos)]

\* what _log_likelihood_triplet returns
TripletValue(n, g, up, counts_triplet, theta_triplet, combos) ==
    IF OutOfDomain(g, theta_triplet) THEN Sentinel
    ELSE [kind |-> "value",
          prior |-> IF up THEN theta_triplet ELSE <<>>,
          counts |-> counts_triplet,
          pf |-> PatternFrequenciesOf(n, g, theta_triplet, combos)]

\* the accuracies that are equal to b in [0,1] but for one annotator's, x
ThetaTriplets ==
    {[j \in 1..3 |-> IF j = k THEN x ELSE b] :
        k \in 1..3, x \in WideGrid \cup {Rat(3, 2)}, b \in UnitGrid}

\* the class priors: the vectors that sum to 1, and the constant vectors
GammaInputs(n) == SumOne(n) \cup {[k \in 1..n |-> x] : x \in WideGrid}

\* count vectors of one lineup: no item, one item per pattern, and the counts
\* of another number of classes
CountsTriplets(n) ==
    {[k \in 1..(n * n * n) |-> c] : c \in 0..1}
        \cup {[k \in 1..((n + 1) * (n + 1) * (n + 1)) |-> 1]}

InitLL ==
    /\ nclasses \in 1..MaxClasses
    /\ nitems = nannotators
    /\ gamma \in GammaInputs(nclasses)
    /\ theta = DefaultTheta
    /\ use_priors \in BOOLEAN
    /\ use_omegas = TRUE
    /\ EmptyCache
    /\ NoData
    /\ NoFit
    /\ NoThreads
    /\ NoCall

\* self._log_likelihood_triplet(counts_triplet, theta_triplet), called once on
\* the model built
LogLikelihoodTriplet ==
    /\ op = "none"
    /\ op' = "_log_likelihood_triplet"
    /\ \E counts_triplet \in CountsTriplets(nclasses), theta_triplet \in ThetaTriplets :
        /\ arg' = <<counts_triplet, theta_triplet>>
        /\ evaluated' = TripletEvaluates(gamma, use_priors, theta_triplet)
        /\ raised' = TripletRaises(nclasses, gamma, counts_triplet, theta_triplet)
        /\ IF OutOfDomain(gamma, theta_triplet)
           THEN UNCHANGED <<triplet_combinations, computed, nextId>>
           ELSE GetTripletCombinations(nclasses)
        /\ ret' = IF raised' = "none"
                  THEN TripletValue(nclasses, gamma, use_priors, counts_triplet,
                                    theta_triplet, NdIndex3(nclasses))
                  ELSE <<>>
    /\ prev' = [op |-> op, arg |-> arg, ret |-> ret]
    /\ UNCHANGED <<nclasses, nitems, gamma, theta, use_priors, use_omegas,
                   labels, annotations, fitVars, threads>>

NextLL == LogLikelihoodTriplet

SpecLL == InitLL /\ [][NextLL]_vars

\* some component of the sequence is below 0 or above 1
SomeOutside(s) == \E k \in 1..Len(s) : RLt(s[k], Zero) \/ RLt(One, s[k])

\* C5: whenever a component of gamma or one of the three theta values is
\* below 0 or above 1, _log_likelihood_triplet returns the sentinel -1e20
\* without raising and without evaluating the prior or the logarithm of the
\* pattern frequencies, whatever the counts and use_priors.
C5_DomainGuard ==
    (op = "_log_likelihood_triplet" /\ (SomeOutside(gamma) \/ SomeOutside(arg[2])))
    => /\ raised = "none"
       /\ ret = Sentinel
       /\ evaluated = {}

\* the guard has answered for a gamma with a negative component and accuracies
\* in range, with priors on and with counts of the wrong length
C5_Witness ==
    /\ op = "_log_likelihood_triplet"
    /\ SomeOutside(gamma)
    /\ RLt(PyMin(gamma), Zero)
    /\ ~SomeOutside(arg[2])
    /\ use_priors
    /\ Len(arg[1]) # nclasses * nclasses * nclasses
    /\ ret = Sentinel

----------------------------------------------------------------------------
(* The log likelihood over the 8 lineups. *)

\* the accuracies of the annotators 0, 1 and 2, whatever the lineup
LineupThetaFirstThree(th, i) == [k \in 1..3 |-> th[k]]

\* self.theta[triplet_indices] for lineup i
LineupTheta(th, i) == [k \in 1..3 |-> th[TripletIndices(i)[k] + 1]]

\* the exception lineup i of _log_likelihood_counts ends with: an index beyond
\* theta or beyond the columns of counts, or what the triplet raises
LineupRaises(n, g, th, cnts, i) ==
    IF \E k \in 1..3 : TripletIndices(i)[k] >= Len(th) THEN "IndexError"
    ELSE IF i >= Len(cnts) THEN "IndexError"
    ELSE TripletRaises(n, g, cnts[i + 1], LineupTheta(th, i))

\* the lineups _log_likelihood_counts adds before it returns or raises
LineupsDone(n, g, th, cnts) ==
    {i \in 0..(nannotators - 1) :
        \A h \in 0..i : LineupRaises(n, g, th, cnts, h) = "none"}

\* the exception _log_likelihood_counts ends with, "none" when it returns
CountsRaises(n, g, th, cnts) ==
    LET done == LineupsDone(n, g, th, cnts)
    IN  IF Cardinality(done) = nannotators THEN "none"
        ELSE LineupRaises(n, g, th, cnts, Cardinality(done))

\* whether _log_likelihood_counts reaches _get_triplet_combinations: some
\* lineup it enters passes the domain guard
CountsReachCache(n, g, th, cnts) ==
    \E i \in 0..(nannotators - 1) :
        /\ \A h \in 0..(i - 1) : LineupRaises(n, g, th, cnts, h) = "none"
        /\ LineupRaises(n, g, th, cnts, i) # "IndexError"
        /\ ~OutOfDomain(g, LineupTheta(th, i))

\* llhood of _log_likelihood_counts, as the terms of the 8 lineups
CountsTerms(n, g, th, up, cnts) ==
    [k \in 1..nannotators |->
        TripletValue(n, g, up, cnts[k], LineupTheta(th, k - 1), NdIndex3(n))]

\* how many lineups contributed the sentinel
NumSentinels(terms) == Cardinality({k \in 1..Len(terms) : terms[k] = Sentinel})

----------------------------------------------------------------------------
(* _log_likelihood_counts called on a model, any number of times. *)

\* prev after a call of this section and of the next: the history of the
\* call before is kept for the conversions, the cache and the fit only
NotRecorded == [op |-> "none", arg |-> <<>>, ret |-> <<>>]

\* 8 accuracies in (0,1), a different one for every annotator
DistinctTheta == [j \in 1..nannotators |-> Rat(j, nannotators + 1)]

\* the accuracies of the models the log likelihood is asked of: all different,
\* all 1, all 1/2, and the first or the last annotator's at 1.5
CountsThetas ==
    {DistinctTheta, DefaultTheta, [j \in 1..nannotators |-> Rat(1, 2)],
     [j \in 1..nannotators |-> IF j = 1 THEN Rat(3, 2) ELSE Rat(1, 2)],
     [j \in 1..nannotators |-> IF j = nannotators THEN Rat(3, 2) ELSE Rat(1, 2)]}

\* counts in the format of compute_counts, every lineup with the same counts
CountsInputs(n) ==
    {[l \in 1..nannotators |-> c] : c \in CountsTriplets(n)}

InitCounts ==
    /\ nclasses \in 1..MaxFitClasses
    /\ nitems = nannotators
    /\ gamma \in {DefaultGamma(nclasses)} \cup RandomGamma(nclasses)
                \cup {[k \in 1..nclasses |-> Rat(3, 2)]}
    /\ theta \in CountsThetas
    /\ use_priors \in BOOLEAN
    /\ use_omegas = TRUE
    /\ EmptyCache
    /\ NoData
    /\ NoFit
    /\ NoThreads
    /\ NoCall

\* self._log_likelihood_counts(counts), called outside a fit
LogLikelihoodCounts ==
    /\ mle_pc # "optimizing"
    /\ op' = "_log_likelihood_counts"
    /\ \E cnts \in CountsInputs(nclasses) :
        LET exc == CountsRaises(nclasses, gamma, theta, cnts)
        IN  /\ arg' = cnts
            /\ raised' = exc
            /\ ret' = IF exc = "none"
                      THEN [negated |-> FALSE,
                            terms |-> CountsTerms(nclasses, gamma, theta,
                                                  use_priors, cnts)]
                      ELSE <<>>
            /\ IF CountsReachCache(nclasses, gamma, theta, cnts)
               THEN GetTripletCombinations(nclasses)
               ELSE UNCHANGED <<triplet_combinations, computed, nextId>>
    /\ evaluated' = {}
    /\ prev' = NotRecorded
    /\ UNCHANGED <<nclasses, nitems, gamma, theta, use_priors, use_omegas,
                   labels, annotations, fitVars, threads>>

NextCounts == LogLikelihoodCounts

SpecCounts == InitCounts /\ [][NextCounts]_vars

\* the places <<lineup, position>> (both from 1) of the total where annotator
\* j (from 1) stands
PlacesOf(j) ==
    {kp \in (1..nannotators) \X (1..3) : TripletIndices(kp[1] - 1)[kp[2]] = j - 1}

\* C14: with use_priors set and gamma and theta in [0,1], the total
\* _log_likelihood_counts returns holds a value for each of the 8 lineups,
\* each with the log prior of its three annotators: 24 prior terms in all,
\* the prior term of every annotator exactly 3 times.
C14_EachPriorThreeTimes ==
    (Returned("_log_likelihood_counts") /\ use_priors
        /\ ~SomeOutside(gamma) /\ ~SomeOutside(theta))
    => /\ Len(ret.terms) = nannotators
       /\ \A k \in 1..nannotators :
            /\ ret.terms[k].kind = "value"
            /\ Len(ret.terms[k].prior) = 3
       /\ \A j \in 1..nannotators :
            /\ Cardinality(PlacesOf(j)) = 3
            /\ \A kp \in PlacesOf(j) : ret.terms[kp[1]].prior[kp[2]] = theta[j]
            /\ Cardinality({kp \in (1..nannotators) \X (1..3) :
                    ret.terms[kp[1]].prior[kp[2]] = theta[j]})
                >= 3
       /\ RSum([k \in 1..nannotators |-> Rat(Len(ret.terms[k].prior), 1)])
            = Rat(24, 1)

\* the total was returned for 8 different accuracies: the prior of the last
\* annotator stands in the lineups 5, 6 and 7 and nowhere else
C14_Witness ==
    /\ Returned("_log_likelihood_counts")
    /\ use_priors
    /\ theta = DistinctTheta
    /\ nclasses = 2
    /\ ~SomeOutside(gamma)
    /\ {kp \in (1..nannotators) \X (1..3) :
            ret.terms[kp[1]].prior[kp[2]] = theta[nannotators]}
        = {<<6, 3>>, <<7, 3>>, <<8, 3>>}

----------------------------------------------------------------------------
(* The fit. *)

\* compute_counts accepts the matrix: 8 columns, entries that are -1 or class
\* indices, and in every row the three annotators of one lineup
Consistent(ann, n) ==
    \A i \in 1..Len(ann) :
        /\ Len(ann[i]) = nannotators
        /\ \A j \in 1..nannotators : ann[i][j] \in {MissingValue} \cup 0..(n - 1)
        /\ \E l \in 0..(nannotators - 1) :
            NonMissing(ann[i]) = {TripletIndices(l)[k] : k \in 1..3}

\* the lineup that annotated a row
LineupOf(row) ==
    CHOOSE l \in 0..(nannotators - 1) :
        NonMissing(row) = {TripletIndices(l)[k] : k \in 1..3}

\* the number (from 1) of the pattern a row holds, in the order of NdIndex3
PatternOf(row, n) ==
    LET t == TripletIndices(LineupOf(row))
    IN  row[t[1] + 1] * n * n + row[t[2] + 1] * n + row[t[3] + 1] + 1

\* compute_counts(annotations, nclasses): per lineup, how many of its items
\* hold each pattern
ComputeCounts(ann, n) ==
    [l \in 1..nannotators |-> [q \in 1..(n * n * n) |->
        Cardinality({i \in 1..Len(ann) :
            LineupOf(ann[i]) = l - 1 /\ PatternOf(ann[i], n) = q})]]

\* annotations[annotations!=-1], row by row
RECURSIVE Observed(_)
Observed(ann) ==
    IF ann = <<>> THEN <<>>
    ELSE SelectSeq(ann[1], LAMBDA v : v # MissingValue) \o Observed(Tail(ann))

\* the largest entry of a non-empty sequence of integers
SeqMax(s) == CHOOSE x \in {s[k] : k \in 1..Len(s)} : \A k \in 1..Len(s) : s[k] <= x

\* np.bincount(values): one entry per integer from 0 to the largest value
Bincount(values) ==
    IF values = <<>> THEN <<>>
    ELSE [k \in 1..(SeqMax(values) + 1) |->
            Cardinality({m \in 1..Len(values) : values[m] = k - 1})]

\* np.bincount(annotations[annotations!=-1]) / (3.*self.nitems)
OmegaGamma(ann, m) ==
    LET b == Bincount(Observed(ann))
    IN  [k \in 1..Len(b) |-> Rat(b[k], 3 * m)]

\* draws of _random_theta: 8 accuracies in [0.6, 0.95)
RandomTheta ==
    {[j \in 1..nannotators |-> x] : x \in {Rat(3, 5), Rat(9, 10)}}

\* the vectors _random_initial_parameters can return
RandomInitialParameters(ann, n, m, uo) ==
    {ParamsToVectorOf(g, th) :
        g \in (IF uo THEN {OmegaGamma(ann, m)} ELSE RandomGamma(n)),
        th \in RandomTheta}

\* a consistent matrix: the loop design over labels every annotator reports
LoopDesign(n, m, lab) == GenerateAnnotationsOf(n, m, DefaultTheta, lab, 0)

\* the matrix without its last column
DropColumn(ann) == [i \in 1..Len(ann) |-> SubSeq(ann[i], 1, nannotators - 1)]

\* the matrix with the first annotation replaced by v
WithFirst(ann, v) ==
    [i \in 1..Len(ann) |-> [j \in 1..nannotators |->
        IF i = 1 /\ j = 1 THEN v ELSE ann[i][j]]]

\* the matrices mle is called with: two loop designs (every class observed;
\* only class 0 observed), one with 7 columns, one with a label that is no
\* class
MleInputs(n, m) ==
    LET cyc == LoopDesign(n, m, [i \in 1..m |-> (i - 1) % n])
    IN  {cyc, LoopDesign(n, m, [i \in 1..m |-> 0]), DropColumn(cyc), WithFirst(cyc, n)}

\* a class prior outside the simplex, <<1>> when there is one class
OutsideGamma(n) ==
    [k \in 1..n |-> IF n = 1 THEN One
                    ELSE IF k = 1 THEN Rat(3, 2)
                    ELSE IF k = 2 THEN Rat(-1, 2) ELSE Zero]

\* 8 accuracies of 1/2, but for annotator a (from 1), whose accuracy is x
OneMoved(a, x) == [j \in 1..nannotators |-> IF j = a THEN x ELSE Rat(1, 2)]

\* the points of the search: all in range, one accuracy moved to 1.5, or the
\* class prior moved outside the simplex
SearchPoints(n) ==
    {ParamsToVectorOf(DefaultGamma(n), OneMoved(a, x)) :
        a \in 1..nannotators, x \in {Rat(1, 2), Rat(3, 2)}}
        \cup {ParamsToVectorOf(OutsideGamma(n), OneMoved(1, Rat(1, 2)))}

InitMle ==
    /\ nclasses \in 1..MaxFitClasses
    /\ nitems = nannotators
    /\ gamma = DefaultGamma(nclasses)
    /\ theta = DefaultTheta
    /\ use_priors \in BOOLEAN
    /\ use_omegas \in BOOLEAN
    /\ EmptyCache
    /\ NoData
    /\ NoFit
    /\ NoThreads
    /\ NoCall

\* mle that draws params0 and stores it in the model before compute_counts
MleBeginCountsLate ==
    /\ mle_pc = "idle"
    /\ op' = "mle"
    /\ \E ann \in MleInputs(nclasses, nitems) :
        /\ arg' = ann
        /\ annotations' = ann
        /\ \E p \in RandomInitialParameters(ann, nclasses, nitems, FALSE) :
            /\ params0' = p
            /\ gamma' = VectorToParamsOf(nclasses, p)[1]
            /\ theta' = VectorToParamsOf(nclasses, p)[2]
        /\ IF Consistent(ann, nclasses)
           THEN /\ counts' = ComputeCounts(ann, nclasses)
                /\ mle_pc' = "optimizing"
                /\ raised' = "none"
           ELSE /\ counts' = counts
                /\ mle_pc' = "failed"
                /\ raised' = "ValidationError"
    /\ saved' = <<gamma, theta>>
    /\ ret' = <<>>
    /\ evaluated' = {}
    /\ prev' = [op |-> op, arg |-> arg, ret |-> ret]
    /\ UNCHANGED <<nclasses, nitems, use_priors, use_omegas,
                   triplet_combinations, computed, nextId, labels,
                   nevals, visited, threads>>

\* mle(annotations) up to the call of scipy.optimize.fmin: compute_counts,
\* which ends the call when the matrix is inconsistent, then params0
MleBegin ==
    /\ mle_pc = "idle"
    /\ op' = "mle"
    /\ \E ann \in MleInputs(nclasses, nitems) :
        /\ arg' = ann
        /\ annotations' = ann
        /\ IF Consistent(ann, nclasses)
           THEN /\ counts' = ComputeCounts(ann, nclasses)
                /\ params0' \in RandomInitialParameters(ann, nclasses, nitems,
                                                        use_omegas)
                /\ mle_pc' = "optimizing"
                /\ raised' = "none"
           ELSE /\ counts' = counts
                /\ params0' = params0
                /\ mle_pc' = "failed"
                /\ raised' = "ValidationError"
    /\ saved' = <<gamma, theta>>
    /\ ret' = <<>>
    /\ evaluated' = {}
    /\ prev' = [op |-> op, arg |-> arg, ret |-> ret]
    /\ UNCHANGED <<nclasses, nitems, gamma, theta, use_priors, use_omegas,
                   triplet_combinations, computed, nextId, labels,
                   nevals, visited, threads>>

\* _wrap_llhood(params), called by the optimizer: first on params0, then on
\* points of the search.  An exception of the objective ends mle.
WrapLlhood ==
    /\ mle_pc = "optimizing"
    /\ nevals < MaxEvals
    /\ op' = "_wrap_llhood"
    /\ \E params \in (IF nevals = 0 THEN {params0} ELSE SearchPoints(nclasses)) :
        LET g == VectorToParamsOf(nclasses, params)[1]
            th == VectorToParamsOf(nclasses, params)[2]
            exc == CountsRaises(nclasses, g, th, counts)
        IN  /\ arg' = params
            /\ gamma' = g
            /\ theta' = th
            /\ visited' = visited \cup {params}
            /\ raised' = exc
            /\ mle_pc' = IF exc = "none" THEN "optimizing" ELSE "failed"
            /\ ret' = IF exc = "none"
                      THEN [negated |-> TRUE,
                            terms |-> CountsTerms(nclasses, g, th, use_priors, counts)]
                      ELSE <<>>
            /\ IF CountsReachCache(nclasses, g, th, counts)
               THEN GetTripletCombinations(nclasses)
               ELSE UNCHANGED <<triplet_combinations, computed, nextId>>
    /\ nevals' = nevals + 1
    /\ evaluated' = {}
    /\ prev' = [op |-> op, arg |-> arg, ret |-> ret]
    /\ UNCHANGED <<nclasses, nitems, use_priors, use_omegas, labels, annotations,
                   counts, params0, saved, threads>>

\* fmin returns params_best, a vector it evaluated, and mle stores
\* _vector_to_params(params_best)
MleReturn ==
    /\ mle_pc = "optimizing"
    /\ nevals >= 1
    /\ op' = "mle"
    /\ \E params_best \in visited :
        /\ gamma' = VectorToParamsOf(nclasses, params_best)[1]
        /\ theta' = VectorToParamsOf(nclasses, params_best)[2]
        /\ arg' = params_best
    /\ mle_pc' = "done"
    /\ ret' = <<>>
    /\ raised' = "none"
    /\ evaluated' = {}
    /\ prev' = [op |-> op, arg |-> arg, ret |-> ret]
    /\ UNCHANGED <<nclasses, nitems, use_priors, use_omegas,
                   triplet_combinations, computed, nextId, labels, annotations,
                   counts, params0, nevals, visited, saved, threads>>

NextMle ==
    \/ MleBegin
    \/ WrapLlhood
    \/ MleReturn

SpecMle == InitMle /\ [][NextMle]_vars

\* the objective was evaluated where annotator a (from 1) has accuracy 1.5
\* and every other parameter is in [0,1]
EvaluatedWithOneAt15(a) ==
    /\ op = "_wrap_llhood"
    /\ Len(theta) = nannotators
    /\ theta[a] = Rat(3, 2)
    /\ \A j \in 1..nannotators : j # a => ~SomeOutside(<<theta[j]>>)
    /\ ~SomeOutside(gamma)

\* a lineup's term that is 0: no prior and no item
TermIsZero(t) ==
    /\ t.kind = "value"
    /\ t.prior = <<>>
    /\ \A q \in 1..Len(t.counts) : t.counts[q] = 0

\* C6 as stated: the objective evaluated where one theta_j is 1.5 and all else
\* is valid is the fixed sentinel, a value of magnitude exactly 1e20, and
\* nothing is raised.
C6_ObjectiveIsOneSentinel ==
    \A a \in 1..nannotators :
        EvaluatedWithOneAt15(a)
        => /\ raised = "none"
           /\ NumSentinels(ret.terms) = 1
           /\ \A k \in 1..Len(ret.terms) :
                ret.terms[k] # Sentinel => TermIsZero(ret.terms[k])

\* C6 as amended: nothing is raised, and the objective is the negated sum in
\* which exactly the 3 lineups that contain annotator j contribute the
\* sentinel -1e20 each, the other 5 lineups their value.
C6_ObjectiveHoldsThreeSentinels ==
    \A a \in 1..nannotators :
        EvaluatedWithOneAt15(a)
        => /\ raised = "none"
           /\ ret.negated
           /\ NumSentinels(ret.terms) = 3
           /\ \A i \in 0..(nannotators - 1) :
                IF (a - 1) \in {i, (i + 1) % 8, (i + 2) % 8}
                THEN ret.terms[i + 1] = Sentinel
                ELSE ret.terms[i + 1].kind = "value"

\* the objective was evaluated with the last annotator's accuracy at 1.5 on a
\* two-class model with priors
C6_Witness ==
    /\ EvaluatedWithOneAt15(nannotators)
    /\ nclasses = 2
    /\ use_priors
    /\ raised = "none"
    /\ ret.terms[1].kind = "value"

ClassCount(ann, c) ==
    Cardinality({m \in 1..Len(Observed(ann)) : Observed(ann)[m] = c})

\* C11: with use_omegas set, the vector _random_initial_parameters builds for
\* a consistent matrix has nclasses-1+8 entries, its gamma part is the
\* empirical frequency of each class among the observed labels, and
\* _vector_to_params recovers from it a gamma of length nclasses that sums to
\* 1 and a theta of length 8, also when a class never occurs.
C11_OmegaVectorRecoversParams ==
    (mle_pc = "optimizing" /\ use_omegas)
    => /\ Len(params0) = nclasses - 1 + nannotators
       /\ \A c \in 0..(nclasses - 2) :
            params0[c + 1] = Rat(ClassCount(annotations, c),
                                 Len(Observed(annotations)))
       /\ Len(VectorToParamsOf(nclasses, params0)[1]) = nclasses
       /\ RSum(VectorToParamsOf(nclasses, params0)[1]) = One
       /\ Len(VectorToParamsOf(nclasses, params0)[2]) = nannotators

\* the one element of a singleton: its element is computed once, as the
\* value a bound variable stands for
Only(S) == CHOOSE x \in S : TRUE

\* the term of lineup k (from 1) of the objective _wrap_llhood returns where
\* _vector_to_params gives g and th
TermAt(g, th, k) ==
    Only({TripletValue(nclasses, g, use_priors, counts[k], theta_triplet,
                       NdIndex3(nclasses)) :
            theta_triplet \in {LineupTheta(th, k - 1)}})

\* how many lineups answer the sentinel at params
SentinelsAt(params) ==
    Only({Cardinality({i \in 0..(nannotators - 1) :
                \E theta_triplet \in {LineupTheta(gt[2], i)} :
                    OutOfDomain(gt[1], theta_triplet)}) :
            gt \in {VectorToParamsOf(nclasses, params)}})

\* every component of gamma and theta at params lies in [0,1], gamma sums to
\* 1 and there are 8 accuracies
InDomain(g, th) ==
    /\ Len(g) = nclasses
    /\ Len(th) = nannotators
    /\ ~SomeOutside(g)
    /\ ~SomeOutside(th)
    /\ RSum(g) = One

\* a lineup's term is finite: the prior is the log density of accuracies
\* strictly inside (0,1) and every logarithm is of a positive finite frequency
TermIsFinite(t) ==
    /\ t.kind = "value"
    /\ \A p \in 1..Len(t.prior) : RLt(Zero, t.prior[p]) /\ RLt(t.prior[p], One)
    /\ \A q \in 1..Len(t.pf) : IsFinite(t.pf[q]) /\ RLt(Zero, t.pf[q])

\* f[1] + ... + f[n] for integers
RECURSIVE SumTo(_, _)
SumTo(f, n) == IF n = 0 THEN 0 ELSE f[n] + SumTo(f, n - 1)

\* an integer no less than what a finite term adds to the objective: for x
\* in (0,1], -log(2x) < -log(x) <= log(den(x)) < den(x)
TermBelow(t) ==
    SumTo([p \in 1..Len(t.prior) |-> t.prior[p][2]], Len(t.prior))
        + SumTo([q \in 1..Len(t.pf) |->
                    (IF q <= Len(t.counts) THEN t.counts[q] ELSE t.counts[1])
                        * t.pf[q][2]], Len(t.pf))

\* the objective at params is finite
FiniteAt(params) ==
    \A gt \in {VectorToParamsOf(nclasses, params)} :
        \A k \in 1..nannotators :
            \A t \in {TermAt(gt[1], gt[2], k)} : TermIsFinite(t)

\* an integer no less than the finite objective at params
RestBelow(params) ==
    Only({SumTo([k \in 1..nannotators |->
                    Only({TermBelow(t) : t \in {TermAt(gt[1], gt[2], k)}})],
                nannotators) :
            gt \in {VectorToParamsOf(nclasses, params)}})

\* an integer below what the lineups that pass the guard add to the
\* objective: a log prior is at most log(2) < 1 for each of three annotators,
\* and counts * log(pf) is at most 0
RestAbove == -(annotators_per_item * nannotators)

\* s1 * 1e20 + r1 < s2 * 1e20 + r2, for rests whose magnitude is below 1e20
\* as that of every integer of the model is
MagnitudeLess(s1, r1, s2, r2) == s1 < s2 \/ (s1 = s2 /\ r1 < r2)

\* the objective at params may be no greater than the objective at the
\* initial vector: it is not certain to be greater
MayBeNoGreater(params) ==
    ~MagnitudeLess(SentinelsAt(params0), RestBelow(params0),
                   SentinelsAt(params), RestAbove)

\* C15: if the initial vector of mle is in the valid domain with a finite
\* objective and the optimizer returns a point it evaluated whose objective
\* is no greater, then after mle returns every component of the stored gamma
\* and each of the 8 stored accuracies lies in [0,1] and gamma sums to 1,
\* whichever points outside the domain were evaluated during the search.
\* (Written as: what mle stored is in the domain, or else a premise fails.)
C15_ReturnsInDomain ==
    mle_pc = "done"
    => /\ <<gamma, theta>> = VectorToParamsOf(nclasses, arg)
       /\ \/ InDomain(gamma, theta)
          \/ ~InDomain(VectorToParamsOf(nclasses, params0)[1],
                       VectorToParamsOf(nclasses, params0)[2])
          \/ arg \notin visited
          \/ ~MayBeNoGreater(arg)
          \/ ~FiniteAt(params0)

\* mle returned the initial vector of a two-class fit with priors after the
\* search had evaluated, and stored into the model, a point with an accuracy
\* of 1.5
C15_Witness ==
    /\ mle_pc = "done"
    /\ nclasses = 2
    /\ use_priors
    /\ arg = params0
    /\ MayBeNoGreater(arg)
    /\ FiniteAt(params0)
    /\ \E p \in visited :
        /\ SentinelsAt(p) = 3
        /\ SomeOutside(VectorToParamsOf(nclasses, p)[2])
    /\ InDomain(gamma, theta)
    /\ theta[1] = Rat(9, 10)

----------------------------------------------------------------------------
(* The methods of one model called one after another, before and after a   *)
(* fit.  The calls are synchronous: none runs while mle is optimizing.      *)

\* what a call that only reads the model leaves alone
ReadOnly ==
    UNCHANGED <<nclasses, nitems, gamma, theta, use_priors, use_omegas,
                fitVars, threads>>

\* the matrices log_likelihood is called with: a loop design and a matrix of
\* 7 columns
LikelihoodInputs(n, m) ==
    LET cyc == LoopDesign(n, m, [i \in 1..m |-> (i - 1) % n])
    IN  {cyc, DropColumn(cyc)}

\* self.log_likelihood(annotations): compute_counts, which ends the call when
\* the matrix is inconsistent, then _log_likelihood_counts
LogLikelihood ==
    /\ mle_pc # "optimizing"
    /\ op' = "log_likelihood"
    /\ \E ann \in LikelihoodInputs(nclasses, nitems) :
        LET cnts == ComputeCounts(ann, nclasses)
            exc == IF Consistent(ann, nclasses)
                   THEN CountsRaises(nclasses, gamma, theta, cnts)
                   ELSE "ValidationError"
        IN  /\ arg' = ann
            /\ raised' = exc
            /\ ret' = IF exc = "none"
                      THEN [negated |-> FALSE,
                            terms |-> CountsTerms(nclasses, gamma, theta,
                                                  use_priors, cnts)]
                      ELSE <<>>
            /\ IF Consistent(ann, nclasses)
                    /\ CountsReachCache(nclasses, gamma, theta, cnts)
               THEN GetTripletCombinations(nclasses)
               ELSE UNCHANGED <<triplet_combinations, computed, nextId>>
    /\ evaluated' = {}
    /\ prev' = NotRecorded
    /\ UNCHANGED <<labels, annotations>>
    /\ ReadOnly

\* self._log_likelihood_triplet(counts_triplet, self.theta[[0, 1, 2]]) with
\* the counts of no item
CallLogLikelihoodTriplet ==
    /\ mle_pc # "optimizing"
    /\ op' = "_log_likelihood_triplet"
    /\ LET counts_triplet == [q \in 1..(nclasses * nclasses * nclasses) |-> 0]
           theta_triplet == LineupTheta(theta, 0)
       IN  /\ arg' = <<counts_triplet, theta_triplet>>
           /\ evaluated' = TripletEvaluates(gamma, use_priors, theta_triplet)
           /\ raised' = TripletRaises(nclasses, gamma, counts_triplet, theta_triplet)
           /\ IF OutOfDomain(gamma, theta_triplet)
              THEN UNCHANGED <<triplet_combinations, computed, nextId>>
              ELSE GetTripletCombinations(nclasses)
           /\ ret' = TripletValue(nclasses, gamma, use_priors, counts_triplet,
                                  theta_triplet, NdIndex3(nclasses))
    /\ prev' = NotRecorded
    /\ UNCHANGED <<labels, annotations>>
    /\ ReadOnly

\* self._pattern_frequencies(self.theta[[0, 1, 2]])
CallPatternFrequencies ==
    /\ mle_pc # "optimizing"
    /\ GetTripletCombinations(nclasses)
    /\ op' = "_pattern_frequencies"
    /\ arg' = LineupTheta(theta, 0)
    /\ ret' = PatternFrequenciesOf(nclasses, gamma, LineupTheta(theta, 0),
                                   triplet_combinations'[nclasses].value)
    /\ raised' = "none"
    /\ evaluated' = {}
    /\ prev' = NotRecorded
    /\ UNCHANGED <<labels, annotations>>
    /\ ReadOnly

\* self.generate_labels()
CallGenerateLabels ==
    /\ mle_pc # "optimizing"
    /\ op' = "generate_labels"
    /\ arg' = <<>>
    /\ labels' = [i \in 1..nitems |-> RandomCategorical(gamma, i)]
    /\ ret' = labels'
    /\ raised' = "none"
    /\ evaluated' = {}
    /\ prev' = NotRecorded
    /\ UNCHANGED <<triplet_combinations, computed, nextId, annotations>>
    /\ ReadOnly

\* self.generate_annotations(labels) on the labels last generated: theta[j]
\* is read for j = 0..7 in turn, and the assertion of _theta_to_categorical
\* ends the call when a distribution does not sum to 1
CallGenerateAnnotations ==
    /\ mle_pc # "optimizing"
    /\ labels # <<>>
    /\ op' = "generate_annotations"
    /\ arg' = labels
    /\ IF \E i \in 1..nitems, j \in 1..Len(theta) :
            ~DistrAssertion(ThetaToCategorical(nclasses, theta[j], labels[i]))
       THEN /\ annotations' = annotations
            /\ ret' = <<>>
            /\ raised' = "AssertionError"
       ELSE IF Len(theta) < nannotators
       THEN /\ annotations' = annotations
            /\ ret' = <<>>
            /\ raised' = "IndexError"
       ELSE /\ annotations' = GenerateAnnotationsOf(nclasses, nitems, theta,
                                                    labels, 0)
            /\ ret' = annotations'
            /\ raised' = "none"
    /\ evaluated' = {}
    /\ prev' = NotRecorded
    /\ UNCHANGED <<triplet_combinations, computed, nextId, labels>>
    /\ ReadOnly

\* _vector_to_params that stores what it returns into the model
CallVectorToParamsStoring ==
    /\ mle_pc # "optimizing"
    /\ op' = "_vector_to_params"
    /\ arg' = ParamsToVectorOf(DefaultGamma(nclasses), DistinctTheta)
    /\ ret' = VectorToParamsOf(nclasses, arg')
    /\ gamma' = ret'[1]
    /\ theta' = ret'[2]
    /\ raised' = "none"
    /\ evaluated' = {}
    /\ prev' = NotRecorded
    /\ UNCHANGED <<nclasses, nitems, use_priors, use_omegas, fitVars, threads,
                   triplet_combinations, computed, nextId, labels, annotations>>

\* self._params_to_vector(self.gamma, self.theta)
CallParamsToVector ==
    /\ mle_pc # "optimizing"
    /\ op' = "_params_to_vector"
    /\ arg' = <<gamma, theta>>
    /\ ret' = ParamsToVectorOf(gamma, theta)
    /\ raised' = "none"
    /\ evaluated' = {}
    /\ prev' = NotRecorded
    /\ UNCHANGED <<triplet_combinations, computed, nextId, labels, annotations>>
    /\ ReadOnly

\* self._vector_to_params(params) on the vector of another model's parameters
CallVectorToParams ==
    /\ mle_pc # "optimizing"
    /\ op' = "_vector_to_params"
    /\ arg' = ParamsToVectorOf(DefaultGamma(nclasses), DistinctTheta)
    /\ ret' = VectorToParamsOf(nclasses, arg')
    /\ raised' = "none"
    /\ evaluated' = {}
    /\ prev' = NotRecorded
    /\ UNCHANGED <<triplet_combinations, computed, nextId, labels, annotations>>
    /\ ReadOnly

\* the optimizer's evaluation of the objective at params0; the fits of this
\* section are followed through this evaluation only
EvaluateInitial ==
    /\ nevals = 0
    /\ WrapLlhood

InitCalls ==
    /\ nclasses = 2
    /\ nitems = nannotators
    /\ gamma = [k \in 1..nclasses |-> Rat(1, nclasses)]
    /\ theta = [j \in 1..nannotators |-> Rat(1, 2)]
    /\ use_priors = TRUE
    /\ use_omegas \in BOOLEAN
    /\ EmptyCache
    /\ NoData
    /\ NoFit
    /\ NoThreads
    /\ NoCall

NextCalls ==
    \/ LogLikelihood
    \/ LogLikelihoodCounts
    \/ CallLogLikelihoodTriplet
    \/ CallPatternFrequencies
    \/ CallGenerateLabels
    \/ CallGenerateAnnotations
    \/ CallParamsToVector
    \/ CallVectorToParams
    \/ MleBegin
    \/ EvaluateInitial
    \/ MleReturn

SpecCalls == InitCalls /\ [][NextCalls]_vars

\* the methods that are not the fit
ReadingCalls ==
    {"log_likelihood", "_log_likelihood_counts", "_log_likelihood_triplet",
     "_pattern_frequencies", "generate_labels", "generate_annotations",
     "_params_to_vector", "_vector_to_params"}

\* C13: in any sequence of calls, nclasses and nitems never change, and gamma
\* and theta change only in a step of mle: every objective evaluation and the
\* return of mle replace both by _vector_to_params of the vector at hand, and
\* log_likelihood, _log_likelihood_counts, _log_likelihood_triplet,
\* _pattern_frequencies, generate_labels, generate_annotations,
\* _params_to_vector and _vector_to_params leave both unchanged.
C13_OnlyMleChangesParameters ==
    [][/\ nclasses' = nclasses
       /\ nitems' = nitems
       /\ (gamma' # gamma \/ theta' # theta)
            => /\ mle_pc = "optimizing"
               /\ op' \in {"_wrap_llhood", "mle"}
       /\ (op' \in ReadingCalls \/ mle_pc # "optimizing")
            => (gamma' = gamma /\ theta' = theta)
       /\ (nevals' # nevals \/ (mle_pc = "optimizing" /\ mle_pc' = "done"))
            => <<gamma', theta'>> = VectorToParamsOf(nclasses, arg')]_vars

\* after a fit that replaced gamma and theta, the labels and annotations were
\* generated and the log likelihood was computed from the fitted values
C13_Witness ==
    /\ mle_pc = "done"
    /\ <<gamma, theta>> # saved
    /\ <<gamma, theta>> = VectorToParamsOf(nclasses, params0)
    /\ Returned("log_likelihood")
    /\ labels # <<>>
    /\ annotations = GenerateAnnotationsOf(nclasses, nitems, theta, labels, 0)

----------------------------------------------------------------------------
(* _get_triplet_combinations called in sequence. *)

InitCache ==
    /\ nclasses = 1
    /\ nitems = nannotators
    /\ gamma = DefaultGamma(nclasses)
    /\ theta = DefaultTheta
    /\ use_priors = TRUE
    /\ use_omegas = TRUE
    /\ EmptyCache
    /\ NoData
    /\ NoFit
    /\ NoThreads
    /\ NoCall

\* _get_triplet_combinations(n), run to completion
GetTriplets ==
    /\ op' = "_get_triplet_combinations"
    /\ \E n \in 1..MaxKey :
        /\ arg' = n
        /\ GetTripletCombinations(n)
    /\ ret' = triplet_combinations'[arg']
    /\ raised' = "none"
    /\ evaluated' = {}
    /\ prev' = [op |-> op, arg |-> arg, ret |-> ret]
    /\ UNCHANGED <<nclasses, nitems, gamma, theta, use_priors, use_omegas,
                   labels, annotations, fitVars, threads>>

NextCache == GetTriplets

SpecCache == InitCache /\ [][NextCache]_vars

\* C9: in a sequence of calls the enumeration for n is computed on the first
\* call with that n only, a later call returns the stored entry without
\* computing, and an entry once stored is never replaced or removed.
C9_ComputedOnceNeverReplaced ==
    [][/\ \A n \in DOMAIN triplet_combinations :
            /\ n \in DOMAIN triplet_combinations'
            /\ triplet_combinations'[n] = triplet_combinations[n]
       /\ \A n \in DOMAIN computed' : computed'[n] <= 1
       /\ op' = "_get_triplet_combinations"
            => /\ ret' = triplet_combinations'[arg']
               /\ ret'.value = NdIndex3(arg')
               /\ IF arg' \in DOMAIN triplet_combinations
                  THEN computed' = computed /\ ret' = triplet_combinations[arg']
                  ELSE computed'[arg'] = 1]_vars

\* the same n was asked for twice in a row, with another n cached as well
C9_Witness ==
    /\ op = "_get_triplet_combinations"
    /\ prev.op = "_get_triplet_combinations"
    /\ prev.arg = arg
    /\ ret = prev.ret
    /\ computed[arg] = 1
    /\ Cardinality(DOMAIN triplet_combinations) >= 2

----------------------------------------------------------------------------
(* _get_triplet_combinations called by concurrent threads.  The interpreter *)
(* may switch threads between the membership test, the enumeration, the    *)
(* store and the read of the entry returned.                               *)

InitConc ==
    /\ nclasses = 1
    /\ nitems = nannotators
    /\ gamma = DefaultGamma(nclasses)
    /\ theta = DefaultTheta
    /\ use_priors = TRUE
    /\ use_omegas = TRUE
    /\ EmptyCache
    /\ NoData
    /\ NoFit
    /\ NoThreads
    /\ NoCall

\* what a step of a thread inside _get_triplet_combinations leaves alone
ModelUntouched ==
    UNCHANGED <<nclasses, nitems, gamma, theta, use_priors, use_omegas,
                labels, annotations, op, arg, ret, raised, evaluated, prev,
                fitVars>>

\* thread t calls with n and tests: if not _triplet_combinations.has_key(n)
TestKey(t) ==
    /\ threads[t].pc = "idle"
    /\ \E n \in 1..MaxClasses :
        threads' = [threads EXCEPT ![t].n = n,
                        ![t].pc = IF n \in DOMAIN triplet_combinations
                                  THEN "return" ELSE "enumerate"]
    /\ UNCHANGED <<triplet_combinations, computed, nextId>>
    /\ ModelUntouched

\* np.array([i for i in np.ndindex(n,n,n)]): a new array
Enumerate(t) ==
    /\ threads[t].pc = "enumerate"
    /\ threads' = [threads EXCEPT ![t].array = nextId, ![t].pc = "store"]
    /\ nextId' = nextId + 1
    /\ computed' = [computed EXCEPT ![threads[t].n] = @ + 1]
    /\ UNCHANGED triplet_combinations
    /\ ModelUntouched

\* _triplet_combinations[n] = the array
Store(t) ==
    /\ threads[t].pc = "store"
    /\ triplet_combinations' =
        StoreEntry(triplet_combinations, threads[t].n, threads[t].array)
    /\ threads' = [threads EXCEPT ![t].pc = "return"]
    /\ UNCHANGED <<computed, nextId>>
    /\ ModelUntouched

\* return _triplet_combinations[n]
Return(t) ==
    /\ threads[t].pc = "return"
    /\ threads' = [threads EXCEPT ![t].ret = triplet_combinations[threads[t].n].id,
                                  ![t].pc = "done"]
    /\ UNCHANGED <<triplet_combinations, computed, nextId>>
    /\ ModelUntouched

NextConc ==
    \/ \E t \in 1..NThreads : TestKey(t)
    \/ \E t \in 1..NThreads : Enumerate(t)
    \/ \E t \in 1..NThreads : Store(t)
    \/ \E t \in 1..NThreads : Return(t)

SpecConc == InitConc /\ [][NextConc]_vars

\* C10: when callers ask concurrently for the same n, not cached yet, at most
\* one of them computes and stores the entry, and all receive the one entry.
C10_SingleWriter ==
    /\ \A n \in DOMAIN computed : computed[n] <= 1
    /\ \A t, u \in 1..NThreads :
        (threads[t].pc = "done" /\ threads[u].pc = "done"
            /\ threads[t].n = threads[u].n)
        => threads[t].ret = threads[u].ret

====
